---- MODULE Spec2Model ----
(***************************************************************************)
(* InventoryDP (src/inventory.py): the backward induction of recurse() and *)
(* the forward replay of simulate(), as a state machine over the program's *)
(* positions.                                                              *)
(*                                                                         *)
(* Two InventoryDP instances exist side by side, as in the experiment list *)
(* of the source (experiments #1 and #2 differ in holding_cost only): they *)
(* share time_horizon, price, max_inventory and max_demand and each has    *)
(* its own holding_cost and its own tables.  The program is single         *)
(* threaded: one call is active at a time and runs to its end.             *)
(*                                                                         *)
(* Costs in the tables are kept in units of 1/Unit of a currency unit,     *)
(* Unit = (max_demand + 1)^time_horizon, in which every division by        *)
(* max_demand + 1 that the backward pass performs is exact.  This is the   *)
(* exact value of the float64 arithmetic whenever float64 does not round   *)
(* (always for max_demand + 1 a power of two at these magnitudes).         *)
(***************************************************************************)
EXTENDS Integers, Sequences, FiniteSets, TLC

\* Bounds of the model.
MaxTimeHorizon == 2
MaxInventory == 2
MaxDemand == 2
MaxPrice == 1
MaxHoldingCost == 1

\* The instances: dp = InventoryDP(**parameters), one per experiment.
Inst == {1, 2}

\* self._tree_height before _initialize() has run.
None == -1

VARIABLES
    \* problem parameters (attributes set by __init__)
    time_horizon, holding_cost, price, max_inventory, max_demand,
    \* attributes set by _initialize(): per instance
    tree_height, values, decisions,
    \* the call in progress (or the last one) and its position
    op, self, pc, outcome,
    \* how the last recurse() on each instance ended
    solved,
    \* locals of recurse()
    period, state, current_inventory, possible_orders, local_values,
    order, demand, new_inventory, throw_away_penalty,
    \* locals of simulate(); start is the argument as the caller passed it
    start, initial_inventory, orders, demands, costs

params == <<time_horizon, holding_cost, price, max_inventory, max_demand>>
tables == <<tree_height, values, decisions>>
callv == <<op, self, pc, outcome>>
rlocals == <<current_inventory, possible_orders, local_values, order, demand,
             new_inventory>>
slocals == <<start, initial_inventory, orders, demands, costs>>
vars == <<params, tables, callv, solved, period, state, throw_away_penalty,
          rlocals, slocals>>

---------------------------------------------------------------------------
\* Helpers

Max(a, b) == IF a >= b THEN a ELSE b

Abs(a) == IF a >= 0 THEN a ELSE -a

\* range(n)
Range(n) == 0 .. (n - 1)

\* np.zeros((rows, cols))
Zeros2(rows, cols) == [r \in Range(rows) |-> [c \in Range(cols) |-> 0]]

\* np.zeros((n, ))
Zeros1(n) == [k \in Range(n) |-> 0]

RECURSIVE Pow(_, _)
Pow(b, e) == IF e = 0 THEN 1 ELSE b * Pow(b, e - 1)

\* Table units per currency unit.
Unit == Pow(max_demand + 1, time_horizon)

\* local_values.sum(axis=0)[o], summed over demands 0..d
RECURSIVE SumColumn(_, _, _)
SumColumn(lv, o, d) == IF d < 0 THEN 0 ELSE lv[d][o] + SumColumn(lv, o, d - 1)

\* expected_values = local_values.sum(axis=0) / (max_demand + 1)
ExpectedValues(lv, po) ==
    [o \in Range(po) |-> SumColumn(lv, o, max_demand) \div (max_demand + 1)]

\* expected_values.min()
MinOf(ev) == CHOOSE v \in {ev[o] : o \in DOMAIN ev} :
                 \A o \in DOMAIN ev : v <= ev[o]

\* expected_values.argmin() taking the last index of the minimum instead
ArgMinLast(ev) == CHOOSE o \in DOMAIN ev :
                 /\ ev[o] = MinOf(ev)
                 /\ \A o2 \in DOMAIN ev : ev[o2] = MinOf(ev) => o2 <= o

\* expected_values.argmin(): the first index of the minimum
ArgMin(ev) == CHOOSE o \in DOMAIN ev :
                 /\ ev[o] = MinOf(ev)
                 /\ \A o2 \in DOMAIN ev : ev[o2] = MinOf(ev) => o <= o2

\* The clip-and-penalize rule with the lower bound's penalty forgotten.
RecurseClipNoLower(n) ==
    IF n < -1 * max_inventory
    THEN [inventory |-> -1 * max_inventory, penalty |-> 0]
    ELSE IF n > max_inventory
    THEN [inventory |-> max_inventory, penalty |-> price * 2]
    ELSE [inventory |-> n, penalty |-> 0]

\* recurse(): clip new_inventory and set throw_away_penalty
RecurseClip(n) ==
    IF n < -1 * max_inventory
    THEN [inventory |-> -1 * max_inventory, penalty |-> price * 2]
    ELSE IF n > max_inventory
    THEN [inventory |-> max_inventory, penalty |-> price * 2]
    ELSE [inventory |-> n, penalty |-> 0]

\* simulate(): clip initial_inventory and set throw_away_penalty
SimulateClip(n) ==
    IF n < -1 * max_inventory
    THEN [inventory |-> -1 * max_inventory, penalty |-> price * 2]
    ELSE IF n > max_inventory
    THEN [inventory |-> max_inventory, penalty |-> price * 2]
    ELSE [inventory |-> n, penalty |-> 0]

\* The realized cost with the continuation value read from the period being
\* solved instead of the next one.
RealizedCostSamePeriod(i, n, pen, per) ==
    Unit * (holding_cost[i] * Max(0, n))
    + Unit * (price * Max(0, -1 * n))
    + values[i][n + max_inventory][per]
    + Unit * pen

\* The realized cost with the two unit costs exchanged.
RealizedCostSwapped(i, n, pen, per) ==
    Unit * (price * Max(0, n))
    + Unit * (holding_cost[i] * Max(0, -1 * n))
    + values[i][n + max_inventory][per + 1]
    + Unit * pen

\* recurse(): the realized cost stored in local_values[demand, order]
RealizedCost(i, n, pen, per) ==
    Unit * (holding_cost[i] * Max(0, n))
    + Unit * (price * Max(0, -1 * n))
    + values[i][n + max_inventory][per + 1]
    + Unit * pen

\* simulate(): the cost accumulated in one period
PeriodCost(i, n, pen) ==
    holding_cost[i] * Max(0, n) + price * Max(0, -1 * n) + pen

\* simulate()'s two checks taken in the other order, the precondition first
SimulateCheckSolveFirst(i, a) ==
    IF tree_height[i] = None THEN "RuntimeError"
    ELSE IF ~(0 <= a /\ a <= Abs(max_inventory)) THEN "ValueError"
    ELSE "running"

\* simulate()'s range check as its docstring words it, negative starts
\* admitted
SimulateCheckSigned(i, a) ==
    IF ~(-1 * max_inventory <= a /\ a <= Abs(max_inventory)) THEN "ValueError"
    ELSE IF tree_height[i] = None THEN "RuntimeError"
    ELSE "running"

\* simulate(): the two checks that open the method, in the code's order
SimulateCheck(i, a) ==
    IF ~(0 <= a /\ a <= Abs(max_inventory)) THEN "ValueError"
    ELSE IF tree_height[i] = None THEN "RuntimeError"
    ELSE "running"

\* simulate() running _initialize()'s reset of the decision table again
SimulateFrameReinit ==
    /\ decisions' = [decisions EXCEPT ![self'] =
                        [s \in DOMAIN @ |-> [p \in DOMAIN @[s] |-> 0]]]
    /\ UNCHANGED <<params, tree_height, values, solved>>

\* simulate() assigns no attribute of self
SimulateFrame == UNCHANGED <<params, tables, solved>>

---------------------------------------------------------------------------
\* The state after construction: __init__ of both instances

Init ==
    /\ time_horizon \in 1 .. MaxTimeHorizon
    /\ holding_cost \in [Inst -> 0 .. MaxHoldingCost]
    /\ price \in 0 .. MaxPrice
    /\ max_inventory \in 0 .. MaxInventory
    /\ max_demand \in 0 .. MaxDemand
    /\ tree_height = [i \in Inst |-> None]
    /\ values = [i \in Inst |-> << >>]
    /\ decisions = [i \in Inst |-> << >>]
    /\ solved = [i \in Inst |-> "fresh"]
    /\ op = "none" /\ self = 1 /\ pc = "idle" /\ outcome = "none"
    /\ period = 0 /\ state = 0 /\ throw_away_penalty = 0
    /\ current_inventory = 0 /\ possible_orders = 0 /\ local_values = << >>
    /\ order = 0 /\ demand = 0 /\ new_inventory = 0
    /\ start = 0 /\ initial_inventory = 0
    /\ orders = << >> /\ demands = << >> /\ costs = 0

\* The locals of a call that is not running hold nothing.
NoRecurseLocals ==
    /\ current_inventory' = 0 /\ possible_orders' = 0 /\ local_values' = << >>
    /\ order' = 0 /\ demand' = 0 /\ new_inventory' = 0

NoSimulateLocals ==
    /\ start' = 0 /\ initial_inventory' = 0
    /\ orders' = << >> /\ demands' = << >> /\ costs' = 0

---------------------------------------------------------------------------
\* recurse()

\* The call, and _initialize().  Both loops stand before their first item:
\* period and state are placed as if an earlier period had just been
\* exhausted, so that the next cell is (time_horizon - 1, 0).
Recurse(i) ==
    /\ pc = "idle"
    /\ op' = "recurse" /\ self' = i /\ outcome' = "running"
    /\ tree_height' = [tree_height EXCEPT ![i] = 2 * max_inventory + 1]
    /\ values' = [values EXCEPT ![i] =
                     Zeros2(2 * max_inventory + 1, time_horizon + 1)]
    /\ decisions' = [decisions EXCEPT ![i] =
                        Zeros2(2 * max_inventory + 1, time_horizon + 1)]
    /\ solved' = [solved EXCEPT ![i] = "running"]
    /\ period' = time_horizon /\ state' = 2 * max_inventory
    /\ throw_away_penalty' = 0
    /\ pc' = "for_state"
    /\ NoRecurseLocals /\ NoSimulateLocals
    /\ UNCHANGED params

\* Both loops are exhausted.
LastCell == state = tree_height[self] - 1 /\ period = 0

\* The loop heads and the set-up of one (period, state) cell.
CellBegin ==
    /\ op = "recurse" /\ pc = "for_state"
    /\ ~LastCell
    /\ LET more == state < tree_height[self] - 1
           np == IF more THEN period ELSE period - 1
           ns == IF more THEN state + 1 ELSE 0
           ci == ns - max_inventory
           po == max_inventory - ci + max_demand
       IN  /\ period' = np /\ state' = ns
           /\ current_inventory' = ci
           /\ possible_orders' = po
           /\ local_values' = Zeros2(max_demand + 1, po)
    /\ pc' = "for_order"
    /\ UNCHANGED <<params, tables, solved, op, self, outcome, order, demand,
                   new_inventory, throw_away_penalty, slocals>>

\* Whether the cartesian product of orders and demands has a next pair.
HasNextPair ==
    IF pc = "for_order" THEN possible_orders > 0
    ELSE ~(order = possible_orders - 1 /\ demand = max_demand)

\* One pass of the loop body for the next (order, demand).
InnerStep ==
    /\ op = "recurse" /\ pc \in {"for_order", "body"}
    /\ HasNextPair
    /\ LET no == IF pc = "for_order" THEN 0
                 ELSE IF demand < max_demand THEN order ELSE order + 1
           nd == IF pc = "for_order" THEN 0
                 ELSE IF demand < max_demand THEN demand + 1 ELSE 0
           c == RecurseClip(current_inventory + no - nd)
       IN  /\ order' = no /\ demand' = nd
           /\ new_inventory' = c.inventory
           /\ throw_away_penalty' = c.penalty
           /\ local_values' = [local_values EXCEPT ![nd][no] =
                 RealizedCost(self, c.inventory, c.penalty, period)]
    /\ pc' = "body"
    /\ UNCHANGED <<params, tables, solved, op, self, outcome, period, state,
                   current_inventory, possible_orders, slocals>>

\* The expected values and the minimum; min() of an empty array raises.
CellEnd ==
    /\ op = "recurse" /\ pc \in {"for_order", "body"}
    /\ ~HasNextPair
    /\ LET ev == ExpectedValues(local_values, possible_orders)
       IN  IF possible_orders = 0
           THEN /\ outcome' = "ValueError" /\ pc' = "idle"
                /\ solved' = [solved EXCEPT ![self] = "raised"]
                /\ UNCHANGED <<values, decisions>>
           ELSE /\ values' = [values EXCEPT ![self][state][period] = MinOf(ev)]
                /\ decisions' = [decisions EXCEPT ![self][state][period] =
                                    ArgMin(ev)]
                /\ pc' = "for_state"
                /\ UNCHANGED <<outcome, solved>>
    /\ UNCHANGED <<params, tree_height, op, self, period, state,
                   throw_away_penalty, rlocals, slocals>>

RecurseReturn ==
    /\ op = "recurse" /\ pc = "for_state"
    /\ LastCell
    /\ outcome' = "returned" /\ pc' = "idle"
    /\ solved' = [solved EXCEPT ![self] = "returned"]
    /\ UNCHANGED <<params, tables, op, self, period, state,
                   throw_away_penalty, rlocals, slocals>>

---------------------------------------------------------------------------
\* simulate(initial_inventory)

\* The call: the two checks and the output arrays.
Simulate(i, a) ==
    /\ pc = "idle"
    /\ op' = "simulate" /\ self' = i
    /\ outcome' = SimulateCheck(i, a)
    /\ start' = a /\ initial_inventory' = a
    /\ IF SimulateCheck(i, a) = "running"
       THEN /\ orders' = Zeros1(time_horizon)
            /\ demands' = Zeros1(time_horizon)
            /\ pc' = "sim_init"
       ELSE /\ orders' = << >> /\ demands' = << >>
            /\ pc' = "idle"
    /\ costs' = 0
    /\ period' = 0 /\ state' = 0 /\ throw_away_penalty' = 0
    /\ NoRecurseLocals
    /\ SimulateFrame

\* One period of the replay, with the demand d that random.randint draws.
SimPeriod(d) ==
    /\ op = "simulate" /\ pc \in {"sim_init", "sim_body"}
    /\ LET np == IF pc = "sim_init" THEN 0 ELSE period + 1
           st == initial_inventory + max_inventory
       IN  /\ np < time_horizon
           /\ period' = np /\ state' = st
           /\ orders' = [orders EXCEPT ![np] = decisions[self][st][np]]
           /\ demands' = [demands EXCEPT ![np] = d]
           /\ LET c == SimulateClip(initial_inventory
                                    + decisions[self][st][np] - d)
              IN  /\ initial_inventory' = c.inventory
                  /\ throw_away_penalty' = c.penalty
                  /\ costs' = costs + PeriodCost(self, c.inventory, c.penalty)
    /\ pc' = "sim_body"
    /\ UNCHANGED <<op, self, outcome, start, rlocals>>
    /\ SimulateFrame

SimReturn ==
    /\ op = "simulate" /\ pc \in {"sim_init", "sim_body"}
    /\ (IF pc = "sim_init" THEN 0 ELSE period + 1) >= time_horizon
    /\ outcome' = "returned" /\ pc' = "idle"
    /\ UNCHANGED <<op, self, period, state, throw_away_penalty, rlocals,
                   slocals>>
    /\ SimulateFrame

---------------------------------------------------------------------------

\* The starting inventories a caller may pass: the state range and one
\* value beyond it on either side.
Arguments == (-1 * max_inventory - 1) .. (max_inventory + 1)

Next ==
    \/ \E i \in Inst : Recurse(i)
    \/ CellBegin
    \/ InnerStep
    \/ CellEnd
    \/ RecurseReturn
    \/ \E i \in Inst : \E a \in Arguments : Simulate(i, a)
    \/ \E d \in 0 .. max_demand : SimPeriod(d)
    \/ SimReturn

Spec == Init /\ [][Next]_vars

---------------------------------------------------------------------------
\* The backward recursion, restated from the problem's definition for the
\* properties below.

ClipTo(n) ==
    IF n < -max_inventory THEN -max_inventory
    ELSE IF n > max_inventory THEN max_inventory ELSE n

\* The cost of one period that ends with the raw inventory raw, in currency.
StageCost(i, raw) ==
    holding_cost[i] * Max(0, ClipTo(raw)) + price * Max(0, -ClipTo(raw))
    + (IF ClipTo(raw) # raw THEN 2 * price ELSE 0)

\* (max_demand + 1) times the expected cost of ordering o in state s at
\* period p, summed over the demands 0..d, in table units.
RECURSIVE BellmanSum(_, _, _, _, _)
BellmanSum(i, s, p, o, d) ==
    IF d < 0 THEN 0
    ELSE Unit * StageCost(i, s - max_inventory + o - d)
         + values[i][ClipTo(s - max_inventory + o - d) + max_inventory][p + 1]
         + BellmanSum(i, s, p, o, d - 1)

Expected(i, s, p, o) == BellmanSum(i, s, p, o, max_demand)

States == 0 .. (2 * max_inventory)
Periods == 0 .. (time_horizon - 1)

\* The orders range(possible_orders) enumerates in state s.
Candidates(s) == 0 .. (2 * max_inventory - s + max_demand - 1)

\* The orders [0, M - inv + D] inclusive.
AllOrders(s) == 0 .. (2 * max_inventory - s + max_demand)

Returned(i) == solved[i] = "returned"

\* recurse() has just returned or raised: control is back at the caller.
RecurseEnded == op = "recurse" /\ pc = "idle"

\* The inventory before period p of a replay of the table dec from the
\* starting inventory a under the demands dem.
RECURSIVE ReplayInventory(_, _, _, _)
ReplayInventory(dec, a, dem, p) ==
    IF p = 0 THEN a
    ELSE LET before == ReplayInventory(dec, a, dem, p - 1)
         IN  ClipTo(before + dec[before + max_inventory][p - 1] - dem[p - 1])

ReplayOrders(dec, a, dem) ==
    [p \in Periods |-> dec[ReplayInventory(dec, a, dem, p) + max_inventory][p]]

---------------------------------------------------------------------------
\* C1: when a recurse() ends, for every instance whose recurse() has
\* returned, value[s, T] = 0 for every state, and
\* for every period p < T and state s, value[s, p] is the minimum over the
\* candidate orders of the average over the D+1 demands of holding cost,
\* backorder cost, clipping penalty and value[n + M, p + 1]; decision[s, p]
\* is a candidate that attains it.  The minimum is the same over the orders
\* the code enumerates and over [0, M - inv + D].
C1_BellmanSolution ==
    \A i \in Inst : (RecurseEnded /\ Returned(i)) =>
        \A s \in States :
            /\ values[i][s][time_horizon] = 0
            /\ \A p \in Periods :
                /\ decisions[i][s][p] \in Candidates(s)
                /\ values[i][s][p] * (max_demand + 1)
                       = Expected(i, s, p, decisions[i][s][p])
                /\ \A o \in AllOrders(s) :
                       values[i][s][p] * (max_demand + 1)
                           <= Expected(i, s, p, o)

\* A two-period table has been solved and the empty backlog state has a
\* positive cost-to-go.
C1_Witness ==
    \E i \in Inst :
        /\ Returned(i) /\ RecurseEnded
        /\ time_horizon = 2 /\ max_inventory >= 1
        /\ values[i][0][0] > values[i][0][1]
        /\ values[i][0][1] > 0

\* C2: in every cell the candidate orders the solver evaluates are exactly
\* the integers of [0, M - inv + D], the order M - inv + D included.
C2_AllOrdersEvaluated ==
    (op = "recurse" /\ pc \in {"for_order", "body"}) =>
        Range(possible_orders)
            = 0 .. (max_inventory - current_inventory + max_demand)

\* C3: recurse() never raises on the declared parameter domain, and when it
\* has ended every cell (s, p), p < T, has been populated.
C3_RecurseTotal ==
    /\ \A i \in Inst : solved[i] # "raised"
    /\ (op = "recurse" /\ pc = "idle") =>
           (outcome = "returned" /\ period = 0 /\ state = 2 * max_inventory)

\* C4: with max_demand = 0, a simulation that returns was run on a solved
\* table and its total cost equals value[start + M, 0].
C4_SimulationReproducesValue ==
    (max_demand = 0 /\ op = "simulate" /\ outcome = "returned") =>
        /\ Returned(self)
        /\ costs * Unit = values[self][start + max_inventory][0]

C7_ClippingInvariant ==
    [][/\ pc' = "body" =>
           LET raw == current_inventory' + order' - demand'
               pen == IF new_inventory' # raw THEN 2 * price ELSE 0
           IN  /\ new_inventory' = ClipTo(raw)
               /\ new_inventory' + max_inventory \in States
               /\ throw_away_penalty' = pen
               /\ local_values'[demand'][order']
                    = Unit * (holding_cost[self] * Max(0, new_inventory')
                              + price * Max(0, -new_inventory') + pen)
                      + values[self][new_inventory' + max_inventory][period + 1]
       /\ pc' = "sim_body" =>
           LET raw == initial_inventory + orders'[period'] - demands'[period']
               pen == IF initial_inventory' # raw THEN 2 * price ELSE 0
           IN  /\ orders'[period']
                    = decisions[self][initial_inventory + max_inventory][period']
               /\ initial_inventory' = ClipTo(raw)
               /\ initial_inventory' + max_inventory \in States
               /\ throw_away_penalty' = pen
               /\ costs' = costs
                           + holding_cost[self] * Max(0, initial_inventory')
                           + price * Max(0, -initial_inventory') + pen]_vars

\* A simulated period on a solved table was clipped and penalized.
C7_Witness ==
    /\ op = "simulate" /\ pc = "sim_body" /\ Returned(self)
    /\ throw_away_penalty > 0
    /\ initial_inventory = -max_inventory

\* C8: when a recurse() ends, in every solved table decision[s, p] is the
\* smallest order among those with the minimum expected cost; and two
\* solves with identical parameters give identical decision tables.
C8_TieBreak ==
    /\ \A i \in Inst : (RecurseEnded /\ Returned(i)) =>
         \A s \in States : \A p \in Periods : \A o \in Candidates(s) :
             o < decisions[i][s][p] =>
                 Expected(i, s, p, o) > Expected(i, s, p, decisions[i][s][p])
    /\ \A i, j \in Inst :
         (Returned(i) /\ Returned(j) /\ holding_cost[i] = holding_cost[j]) =>
             decisions[i] = decisions[j]

\* Both instances were solved with the same parameters and some cell has
\* two orders of minimum expected cost although costs are not all zero.
C8_Witness ==
    /\ Returned(1) /\ Returned(2) /\ RecurseEnded
    /\ holding_cost[1] = holding_cost[2] /\ price > 0
    /\ \E s \in States : \E p \in Periods : \E o \in Candidates(s) :
         /\ o > decisions[1][s][p]
         /\ Expected(1, s, p, o) = Expected(1, s, p, decisions[1][s][p])
         /\ values[1][s][p] > 0

\* C9 as stated: with the larger holding cost the optimal order is never
\* smaller, at every period and every state below max_inventory.
C9_OrderNeverSmaller ==
    \A i, j \in Inst :
        (Returned(i) /\ Returned(j) /\ holding_cost[i] < holding_cost[j]) =>
            \A p \in Periods : \A s \in States :
                s - max_inventory < max_inventory =>
                    decisions[j][s][p] >= decisions[i][s][p]

\* C9 amended: with the larger holding cost the optimal order is never
\* larger, at every period and every state below max_inventory.
C9_OrderNeverLarger ==
    \A i, j \in Inst :
        (Returned(i) /\ Returned(j) /\ holding_cost[i] < holding_cost[j]) =>
            \A p \in Periods : \A s \in States :
                s - max_inventory < max_inventory =>
                    decisions[j][s][p] <= decisions[i][s][p]

\* Both instances were solved, the second with the larger holding cost,
\* and its order is strictly smaller in some state below max_inventory.
C9_Witness ==
    /\ Returned(1) /\ Returned(2) /\ holding_cost[1] < holding_cost[2]
    /\ \E p \in Periods : \E s \in States :
         /\ s - max_inventory < max_inventory
         /\ decisions[2][s][p] < decisions[1][s][p]

\* C10: every step of a simulate call on a solved instance, whether the
\* call fails or succeeds, leaves the value table, the decision table and
\* the parameters unchanged, and the orders a run returns are those the
\* decision table gives for its own start and its own demands.
C10_TablesReadOnly ==
    [][(op' = "simulate" /\ Returned(self')) =>
         /\ UNCHANGED <<params, tables>>
         /\ outcome' = "returned" =>
                orders' = ReplayOrders(decisions[self'], start', demands')]_vars

\* A simulation on a solved table returned after a positive demand and a
\* positive order.
C10_Witness ==
    /\ op = "simulate" /\ outcome = "returned" /\ Returned(self)
    /\ time_horizon = 2
    /\ orders[1] > 0 /\ demands[0] > 0

====
